---- MODULE Spec2Model ----
(***************************************************************************)
(* State-machine model of the ShopifyForm controller (React component)     *)
(* and the four ShopifyService calls it awaits.                            *)
(*                                                                         *)
(* Every synchronous segment of a handler (from its entry, or from the     *)
(* resumption after an await, to the next await or the return) is one      *)
(* atomic action.  An outstanding remote call is an element of the bag     *)
(* `calls`; the closure of the handler that awaits it (the businessId and  *)
(* formData of the render in which it was started) is kept in the call     *)
(* record.  The controls are enabled as the JSX disables and hides them.   *)
(* The remote server is not part of the repository: its responses are      *)
(* drawn nondeterministically from the response shapes the service types   *)
(* declare, plus a transport fault (a rejected promise).                   *)
(***************************************************************************)
EXTENDS Integers, FiniteSets, Sequences, Bags, TLC

\* ------------------------------------------------------------------ bounds
\* Largest number of user-driven handler invocations after the mount
\* (businessId changes, saves, confirmed deletes, tests) in a behaviour.
MaxOps == 3

\* ------------------------------------------------------------- value sets
Null == "null"
Undefined == "undefined"

TokenMask == "mask16"
DefaultApiVersion == "2024-01"

\* 0 is the falsy businessId, for which the effect fetches nothing.
BusinessIds == {0, 1}
StoreUrls == {"a.myshopify.com"}
ApiVersions == {DefaultApiVersion, "2024-04"}
ServerApiVersions == {"2024-04"}
UserTokens == {"shpat_x"}
ServerTokens == {Undefined, "srv_secret"}
ServerErrors == {Undefined, "", "bad token"}
ServerMessages == {Undefined, "", "Shopify OK"}
Timestamps == {"t1"}

MsgFetchFault == "Failed to fetch integration status"
MsgSaveOk == "Shopify configuration saved successfully!"
MsgSaveFail == "Failed to save configuration"
MsgUnexpected == "An unexpected error occurred"
MsgDeleteOk == "Shopify disconnected successfully!"
MsgDeleteFail == "Failed to disconnect"
MsgTestOk == "Connection successful!"
MsgTestFail == "Connection test failed"

\* JavaScript truthiness of an optional string (a || b, a ? b : c).
Truthy(s) == s \notin {Undefined, Null, ""}
OrElse(s, fallback) == IF Truthy(s) THEN s ELSE fallback

\* --------------------------------------------------------- service shapes
\* A settled call is a record of one shape for all four calls: fault is TRUE
\* when the promise rejected (or the body was unusable), and the fields a
\* response type does not declare stay Undefined / NoData.
NoData ==
  [store_url |-> Undefined, access_token |-> Undefined,
   api_version |-> Undefined, updated_at |-> Undefined]

ConfigData ==
  [store_url : StoreUrls, access_token : ServerTokens,
   api_version : ServerApiVersions, updated_at : Timestamps]

Rejected ==
  [fault |-> TRUE, success |-> FALSE, data |-> NoData, error |-> Undefined,
   message |-> Undefined]

\* getConfig: ShopifyConfigResponse.  The controller reads success and data
\* only (never error); a success without data and a failure are both drawn.
GetConfigResponse ==
  [fault : {FALSE}, success : {TRUE}, data : ConfigData \cup {NoData},
   error : {Undefined}, message : {Undefined}]
  \cup [fault : {FALSE}, success : {FALSE}, data : {NoData},
        error : {"not found"}, message : {Undefined}]
  \cup {Rejected}

\* saveConfig: ShopifyConfigResponse.  The controller reads success and error
\* only.
SaveConfigResponse ==
  [fault : {FALSE}, success : BOOLEAN, data : {NoData}, error : ServerErrors,
   message : {Undefined}] \cup {Rejected}

DeleteResponse ==
  [fault : {FALSE}, success : BOOLEAN, data : {NoData}, error : ServerErrors,
   message : {Undefined}] \cup {Rejected}

\* testConnection: the controller reads message on success and error on
\* failure.
TestResponse ==
  [fault : {FALSE}, success : {TRUE}, data : {NoData}, error : {Undefined},
   message : ServerMessages]
  \cup [fault : {FALSE}, success : {FALSE}, data : {NoData},
        error : ServerErrors, message : {Undefined}]
  \cup {Rejected}

\* ------------------------------------------------------------------ state
VARIABLES
  businessId,         \* prop
  onSuccess,          \* prop: TRUE iff an onSuccess callback is supplied
  mounted,            \* the mount effect has run
  integrationStatus,
  formData,
  loading,
  saving,
  deleting,
  error,
  success,
  calls,              \* bag of outstanding remote calls with their closures
  scheduled,          \* number of setTimeout(() => onSuccess(), 1500) calls made
  expected,           \* history: successful save + delete responses so far
  ops,                \* history: handler invocations that issued a call
  deleted,            \* history: a delete succeeded and since then no save was
                      \* started and businessId did not change
  last                \* history: the handler segment that settled last

vars == <<businessId, onSuccess, mounted, integrationStatus, formData, loading,
          saving, deleting, error, success, calls, scheduled, expected,
          ops, deleted, last>>

props == <<businessId, onSuccess>>
flags == <<loading, saving, deleting>>
messages == <<error, success>>
history == <<scheduled, expected, ops, deleted>>

NotIntegrated ==
  [isIntegrated |-> FALSE, store_url |-> Undefined, access_token |-> Undefined,
   api_version |-> Undefined, lastUpdated |-> Undefined]

\* The config field of a call that sends no body.
NoConfig ==
  [store_url |-> Undefined, access_token |-> Undefined, api_version |-> Undefined]

DefaultFormData ==
  [store_url |-> "", access_token |-> "", api_version |-> DefaultApiVersion]

Call(kind, bid, config) == [kind |-> kind, businessId |-> bid, config |-> config]

Outstanding(kind) ==
  {c \in BagToSet(calls) : c.kind = kind}

CountOf(kind) ==
  LET S == Outstanding(kind)
      RECURSIVE Sum(_)
      Sum(T) == IF T = {} THEN 0
                ELSE LET c == CHOOSE x \in T : TRUE
                     IN CopiesIn(c, calls) + Sum(T \ {c})
  IN Sum(S)

Issue(c) == calls (+) SetToBag({c})
Settle(c) == calls (-) SetToBag({c})

Init ==
  /\ businessId \in BusinessIds
  /\ onSuccess \in BOOLEAN
  /\ mounted = FALSE
  /\ integrationStatus = NotIntegrated
  /\ formData = DefaultFormData
  /\ loading = FALSE
  /\ saving = FALSE
  /\ deleting = FALSE
  /\ error = Null
  /\ success = Null
  /\ calls = EmptyBag
  /\ scheduled = 0
  /\ expected = 0
  /\ ops = 0
  /\ deleted = FALSE
  /\ last = "none"

\* ------------------------------------------------- fetchIntegrationStatus
\* FetchSettled, but the draft keeps the token typed before the fetch.
FetchSettledKeepsDraftToken(resp, status, form, err) ==
  IF resp.fault
  THEN [status |-> NotIntegrated, form |-> form, error |-> MsgFetchFault]
  ELSE IF resp.success /\ resp.data # NoData
  THEN [status |-> [isIntegrated |-> TRUE,
                    store_url |-> resp.data.store_url,
                    access_token |-> IF Truthy(resp.data.access_token)
                                     THEN TokenMask ELSE Undefined,
                    api_version |-> resp.data.api_version,
                    lastUpdated |-> resp.data.updated_at],
        form |-> [store_url |-> resp.data.store_url,
                  access_token |-> form.access_token,
                  api_version |-> resp.data.api_version],
        error |-> err]
  ELSE [status |-> NotIntegrated, form |-> form, error |-> err]

\* FetchSettled, but the status keeps the token as the server sent it.
FetchSettledStoresToken(resp, status, form, err) ==
  IF resp.fault
  THEN [status |-> NotIntegrated, form |-> form, error |-> MsgFetchFault]
  ELSE IF resp.success /\ resp.data # NoData
  THEN [status |-> [isIntegrated |-> TRUE,
                    store_url |-> resp.data.store_url,
                    access_token |-> resp.data.access_token,
                    api_version |-> resp.data.api_version,
                    lastUpdated |-> resp.data.updated_at],
        form |-> [store_url |-> resp.data.store_url,
                  access_token |-> "",
                  api_version |-> resp.data.api_version],
        error |-> err]
  ELSE [status |-> NotIntegrated, form |-> form, error |-> err]

\* FetchSettled, but a response without a config is reported as a failed
\* fetch.
FetchSettledAbsentIsError(resp, status, form, err) ==
  IF resp.fault
  THEN [status |-> NotIntegrated, form |-> form, error |-> MsgFetchFault]
  ELSE IF resp.success /\ resp.data # NoData
  THEN [status |-> [isIntegrated |-> TRUE,
                    store_url |-> resp.data.store_url,
                    access_token |-> IF Truthy(resp.data.access_token)
                                     THEN TokenMask ELSE Undefined,
                    api_version |-> resp.data.api_version,
                    lastUpdated |-> resp.data.updated_at],
        form |-> [store_url |-> resp.data.store_url,
                  access_token |-> "",
                  api_version |-> resp.data.api_version],
        error |-> err]
  ELSE [status |-> NotIntegrated, form |-> form, error |-> MsgFetchFault]

\* FetchSettled, but the catch block only reports the error and keeps the
\* status it found.
FetchSettledFaultKeepsStatus(resp, status, form, err) ==
  IF resp.fault
  THEN [status |-> status, form |-> form, error |-> MsgFetchFault]
  ELSE IF resp.success /\ resp.data # NoData
  THEN [status |-> [isIntegrated |-> TRUE,
                    store_url |-> resp.data.store_url,
                    access_token |-> IF Truthy(resp.data.access_token)
                                     THEN TokenMask ELSE Undefined,
                    api_version |-> resp.data.api_version,
                    lastUpdated |-> resp.data.updated_at],
        form |-> [store_url |-> resp.data.store_url,
                  access_token |-> "",
                  api_version |-> resp.data.api_version],
        error |-> err]
  ELSE [status |-> NotIntegrated, form |-> form, error |-> err]

\* The segment after the await of getConfig: the state it leaves, as a
\* record (err is the error slot, which this segment writes only in the
\* catch branch).
FetchSettled(resp, status, form, err) ==
  IF resp.fault
  THEN [status |-> NotIntegrated, form |-> form, error |-> MsgFetchFault]
  ELSE IF resp.success /\ resp.data # NoData
  THEN [status |-> [isIntegrated |-> TRUE,
                    store_url |-> resp.data.store_url,
                    access_token |-> IF Truthy(resp.data.access_token)
                                     THEN TokenMask ELSE Undefined,
                    api_version |-> resp.data.api_version,
                    lastUpdated |-> resp.data.updated_at],
        form |-> [store_url |-> resp.data.store_url,
                  access_token |-> "",
                  api_version |-> resp.data.api_version],
        error |-> err]
  ELSE [status |-> NotIntegrated, form |-> form, error |-> err]

FetchOutcome(resp) ==
  IF resp.fault THEN "Fault"
  ELSE IF resp.success /\ resp.data # NoData THEN "Found" ELSE "Absent"

\* useEffect on [businessId], first run after the initial render; the segment
\* of fetchIntegrationStatus up to the await is part of it.
Mount ==
  /\ ~mounted
  /\ mounted' = TRUE
  /\ IF businessId # 0
     THEN /\ loading' = TRUE
          /\ error' = Null
          /\ calls' = Issue(Call("fetch", businessId, NoConfig))
     ELSE UNCHANGED <<loading, error, calls>>
  /\ UNCHANGED last
  /\ UNCHANGED <<props, integrationStatus, formData, saving, deleting, success,
                 history>>

\* The parent re-renders the form with another businessId; the effect re-runs.
ChangeBusinessId(b) ==
  /\ mounted
  /\ b # businessId
  /\ ops < MaxOps
  /\ businessId' = b
  /\ IF b # 0
     THEN /\ loading' = TRUE
          /\ error' = Null
          /\ calls' = Issue(Call("fetch", b, NoConfig))
     ELSE UNCHANGED <<loading, error, calls>>
  /\ ops' = ops + 1
  /\ deleted' = FALSE
  /\ UNCHANGED last
  /\ UNCHANGED <<onSuccess, mounted, integrationStatus, formData, saving,
                 deleting, success, scheduled, expected>>

\* History only: whether a call was issued for another businessId than the
\* one the form has when the call settles.
Staleness(c) == IF c.businessId # businessId THEN "Stale" ELSE ""

\* FetchRespond, but the effect's cleanup marks its fetch as ignored: the
\* response of a fetch issued for another businessId is dropped.
FetchRespondDropsStale(c, resp) ==
  /\ c.kind = "fetch" /\ BagIn(c, calls)
  /\ LET r == IF c.businessId = businessId
              THEN FetchSettled(resp, integrationStatus, formData, error)
              ELSE [status |-> integrationStatus, form |-> formData,
                    error |-> error]
     IN /\ integrationStatus' = r.status
        /\ formData' = r.form
        /\ error' = r.error
  /\ loading' = FALSE
  /\ calls' = Settle(c)
  /\ last' = "fetch" \o FetchOutcome(resp) \o Staleness(c)
  /\ UNCHANGED <<props, mounted, saving, deleting, success, history>>

\* getConfig settles for a fetch started by the effect.
\* Nothing ties the response to the current businessId or to the latest request.
FetchRespond(c, resp) ==
  /\ c.kind = "fetch" /\ BagIn(c, calls)
  /\ LET r == FetchSettled(resp, integrationStatus, formData, error)
     IN /\ integrationStatus' = r.status
        /\ formData' = r.form
        /\ error' = r.error
  /\ loading' = FALSE
  /\ calls' = Settle(c)
  /\ last' = "fetch" \o FetchOutcome(resp) \o Staleness(c)
  /\ UNCHANGED <<props, mounted, saving, deleting, success, history>>

\* ------------------------------------------------------ handleInputChange
FieldValues(field) ==
  CASE field = "store_url" -> StoreUrls \cup {""}
    [] field = "access_token" -> UserTokens \cup {""}
    [] field = "api_version" -> ApiVersions

\* InputsEnabled, but the inputs are disabled by saving and deleting.
InputsEnabledUnlessSavingOrDeleting == ~(saving \/ deleting)

\* disabled={loading || saving} on each of the three inputs.
InputsEnabled == ~(loading \/ saving)

\* onChange of a controlled input: it fires when the typed value differs from
\* the rendered one.
HandleInputChange(field, value) ==
  /\ mounted
  /\ InputsEnabled
  /\ value # formData[field]
  /\ formData' = [formData EXCEPT ![field] = value]
  /\ UNCHANGED last
  /\ UNCHANGED <<props, mounted, integrationStatus, flags, messages, calls,
                 history>>

\* ------------------------------------------------------- handleSaveConfig
SaveEnabled == ~(saving \/ loading)

\* The segment up to the await of saveConfig.
HandleSaveConfig ==
  /\ mounted
  /\ SaveEnabled
  /\ ops < MaxOps
  /\ saving' = TRUE
  /\ error' = Null
  /\ success' = Null
  /\ calls' = Issue(Call("save", businessId, formData))
  /\ ops' = ops + 1
  /\ deleted' = FALSE
  /\ UNCHANGED last
  /\ UNCHANGED <<props, mounted, integrationStatus, formData, loading, deleting,
                 scheduled, expected>>

\* SaveSettled, but a structured failure always shows the fallback message.
SaveSettledIgnoresServerError(resp, err, succ) ==
  IF resp.fault
  THEN [error |-> MsgUnexpected, success |-> succ, refetch |-> FALSE,
        saving |-> FALSE]
  ELSE IF resp.success
  THEN [error |-> err, success |-> MsgSaveOk, refetch |-> TRUE, saving |-> TRUE]
  ELSE [error |-> MsgSaveFail, success |-> succ, refetch |-> FALSE,
        saving |-> FALSE]

\* SaveSettled, but setSaving(false) sits at the end of the try block, not in
\* a finally: a transport fault leaves the flag set.
SaveSettledNoFinally(resp, err, succ) ==
  IF resp.fault
  THEN [error |-> MsgUnexpected, success |-> succ, refetch |-> FALSE,
        saving |-> TRUE]
  ELSE IF resp.success
  THEN [error |-> err, success |-> MsgSaveOk, refetch |-> TRUE, saving |-> TRUE]
  ELSE [error |-> OrElse(resp.error, MsgSaveFail), success |-> succ,
        refetch |-> FALSE, saving |-> FALSE]

\* The segment after the await of saveConfig: the slots it leaves, whether
\* it goes on to await fetchIntegrationStatus (refetch), and the saving flag
\* (reset by the finally block unless the handler is still awaiting).
SaveSettled(resp, err, succ) ==
  IF resp.fault
  THEN [error |-> MsgUnexpected, success |-> succ, refetch |-> FALSE,
        saving |-> FALSE]
  ELSE IF resp.success
  THEN [error |-> err, success |-> MsgSaveOk, refetch |-> TRUE, saving |-> TRUE]
  ELSE [error |-> OrElse(resp.error, MsgSaveFail), success |-> succ,
        refetch |-> FALSE, saving |-> FALSE]

SaveOutcome(resp) ==
  IF resp.fault THEN "Fault" ELSE IF resp.success THEN "Ok" ELSE "Fail"

\* saveConfig settles.  On success the handler calls fetchIntegrationStatus,
\* whose first segment (loading, error cleared, getConfig issued with the
\* handler's businessId) runs in the same step.
SaveRespond(c, resp) ==
  /\ c.kind = "save" /\ BagIn(c, calls)
  /\ LET r == SaveSettled(resp, error, success)
     IN /\ success' = r.success
        /\ saving' = r.saving
        /\ IF r.refetch
           THEN /\ loading' = TRUE
                /\ error' = Null
                /\ calls' = Settle(c) (+) SetToBag({Call("saveFetch", c.businessId, c.config)})
                /\ expected' = expected + 1
           ELSE /\ error' = r.error
                /\ calls' = Settle(c)
                /\ UNCHANGED <<loading, expected>>
  /\ last' = "save" \o SaveOutcome(resp)
  /\ UNCHANGED <<props, mounted, integrationStatus, formData, deleting,
                 scheduled, ops, deleted>>

\* Whether the segment after the awaited re-fetch schedules onSuccess.
SaveSchedules(hasOnSuccess) == hasOnSuccess

\* getConfig settles for the re-fetch of a successful save; the rest of
\* handleSaveConfig (setTimeout, finally) runs in the same step.
SaveFetchRespond(c, resp) ==
  /\ c.kind = "saveFetch" /\ BagIn(c, calls)
  /\ LET r == FetchSettled(resp, integrationStatus, formData, error)
     IN /\ integrationStatus' = r.status
        /\ formData' = r.form
        /\ error' = r.error
  /\ loading' = FALSE
  /\ IF SaveSchedules(onSuccess)
     THEN scheduled' = scheduled + 1
     ELSE UNCHANGED scheduled
  /\ saving' = FALSE
  /\ calls' = Settle(c)
  /\ last' = "saveFetch" \o FetchOutcome(resp)
  /\ UNCHANGED <<props, mounted, deleting, success, expected, ops, deleted>>

\* ----------------------------------------------------- handleDeleteConfig
DeleteEnabled == integrationStatus.isIntegrated /\ ~(deleting \/ loading)

\* DeleteDeclined, but the confirmation is asked after setDeleting(true).
DeleteDeclinedAfterFlag ==
  /\ mounted
  /\ DeleteEnabled
  /\ deleting' = TRUE
  /\ last' = "deleteDeclined"
  /\ UNCHANGED <<props, mounted, integrationStatus, formData, loading, saving,
                 messages, calls, history>>

\* window.confirm answered "Cancel": the early return.
DeleteDeclined ==
  /\ mounted
  /\ DeleteEnabled
  /\ last' = "deleteDeclined"
  /\ UNCHANGED <<props, mounted, integrationStatus, formData, flags, messages,
                 calls, history>>

\* window.confirm answered "OK": the segment up to the await of deleteConfig.
HandleDeleteConfig ==
  /\ mounted
  /\ DeleteEnabled
  /\ ops < MaxOps
  /\ deleting' = TRUE
  /\ error' = Null
  /\ success' = Null
  /\ calls' = Issue(Call("delete", businessId, NoConfig))
  /\ ops' = ops + 1
  /\ UNCHANGED last
  /\ UNCHANGED <<props, mounted, integrationStatus, formData, loading, saving,
                 scheduled, expected, deleted>>

\* DeleteSettled, but onSuccess is scheduled after the if/else, so also for a
\* structured failure.
DeleteSettledSchedulesOnFailure(resp, status, form, err, succ, hasOnSuccess) ==
  IF resp.fault
  THEN [status |-> status, form |-> form, error |-> MsgUnexpected,
        success |-> succ, schedule |-> FALSE]
  ELSE IF resp.success
  THEN [status |-> NotIntegrated, form |-> DefaultFormData, error |-> err,
        success |-> MsgDeleteOk, schedule |-> hasOnSuccess]
  ELSE [status |-> status, form |-> form,
        error |-> OrElse(resp.error, MsgDeleteFail),
        success |-> succ, schedule |-> hasOnSuccess]

\* DeleteSettled, but the reset of the status and the draft sits after the
\* if/else, so it also runs for a structured failure.
DeleteSettledResetsOnFailure(resp, status, form, err, succ, hasOnSuccess) ==
  IF resp.fault
  THEN [status |-> status, form |-> form, error |-> MsgUnexpected,
        success |-> succ, schedule |-> FALSE]
  ELSE IF resp.success
  THEN [status |-> NotIntegrated, form |-> DefaultFormData, error |-> err,
        success |-> MsgDeleteOk, schedule |-> hasOnSuccess]
  ELSE [status |-> NotIntegrated, form |-> DefaultFormData,
        error |-> OrElse(resp.error, MsgDeleteFail),
        success |-> succ, schedule |-> FALSE]

\* DeleteSettled, but the success branch schedules onSuccess without setting
\* the success message.
DeleteSettledNoSuccessMessage(resp, status, form, err, succ, hasOnSuccess) ==
  IF resp.fault
  THEN [status |-> status, form |-> form, error |-> MsgUnexpected,
        success |-> succ, schedule |-> FALSE]
  ELSE IF resp.success
  THEN [status |-> NotIntegrated, form |-> DefaultFormData, error |-> err,
        success |-> succ, schedule |-> hasOnSuccess]
  ELSE [status |-> status, form |-> form,
        error |-> OrElse(resp.error, MsgDeleteFail),
        success |-> succ, schedule |-> FALSE]

\* DeleteSettled, but the success branch leaves the status to a later fetch.
DeleteSettledKeepsStatus(resp, status, form, err, succ, hasOnSuccess) ==
  IF resp.fault
  THEN [status |-> status, form |-> form, error |-> MsgUnexpected,
        success |-> succ, schedule |-> FALSE]
  ELSE IF resp.success
  THEN [status |-> status, form |-> DefaultFormData, error |-> err,
        success |-> MsgDeleteOk, schedule |-> hasOnSuccess]
  ELSE [status |-> status, form |-> form,
        error |-> OrElse(resp.error, MsgDeleteFail),
        success |-> succ, schedule |-> FALSE]

\* The segment after the await of deleteConfig.
DeleteSettled(resp, status, form, err, succ, hasOnSuccess) ==
  IF resp.fault
  THEN [status |-> status, form |-> form, error |-> MsgUnexpected,
        success |-> succ, schedule |-> FALSE]
  ELSE IF resp.success
  THEN [status |-> NotIntegrated, form |-> DefaultFormData, error |-> err,
        success |-> MsgDeleteOk, schedule |-> hasOnSuccess]
  ELSE [status |-> status, form |-> form,
        error |-> OrElse(resp.error, MsgDeleteFail),
        success |-> succ, schedule |-> FALSE]

DeleteRespond(c, resp) ==
  /\ c.kind = "delete" /\ BagIn(c, calls)
  /\ LET r == DeleteSettled(resp, integrationStatus, formData, error, success,
                            onSuccess)
     IN /\ integrationStatus' = r.status
        /\ formData' = r.form
        /\ error' = r.error
        /\ success' = r.success
        /\ IF r.schedule
           THEN scheduled' = scheduled + 1
           ELSE UNCHANGED scheduled
  /\ expected' = IF ~resp.fault /\ resp.success THEN expected + 1 ELSE expected
  /\ deleted' = IF ~resp.fault /\ resp.success THEN TRUE ELSE deleted
  /\ deleting' = FALSE
  /\ calls' = Settle(c)
  /\ last' = "delete" \o SaveOutcome(resp)
  /\ UNCHANGED <<props, mounted, loading, saving, ops>>

\* --------------------------------------------------- handleTestConnection
TestEnabled == integrationStatus.isIntegrated /\ ~loading

HandleTestConnection ==
  /\ mounted
  /\ TestEnabled
  /\ ops < MaxOps
  /\ loading' = TRUE
  /\ error' = Null
  /\ success' = Null
  /\ calls' = Issue(Call("test", businessId, NoConfig))
  /\ ops' = ops + 1
  /\ UNCHANGED last
  /\ UNCHANGED <<props, mounted, integrationStatus, formData, saving, deleting,
                 scheduled, expected, deleted>>

\* TestSettled, but the catch block is the one of fetchIntegrationStatus: a
\* fault also resets the status.
TestSettledResetsStatus(resp, status, form, err, succ) ==
  IF resp.fault
  THEN [status |-> NotIntegrated, form |-> form, error |-> MsgTestFail,
        success |-> succ]
  ELSE IF resp.success
  THEN [status |-> status, form |-> form, error |-> err,
        success |-> OrElse(resp.message, MsgTestOk)]
  ELSE [status |-> status, form |-> form,
        error |-> OrElse(resp.error, MsgTestFail), success |-> succ]

\* The segment after the await of testConnection.
TestSettled(resp, status, form, err, succ) ==
  IF resp.fault
  THEN [status |-> status, form |-> form, error |-> MsgTestFail, success |-> succ]
  ELSE IF resp.success
  THEN [status |-> status, form |-> form, error |-> err,
        success |-> OrElse(resp.message, MsgTestOk)]
  ELSE [status |-> status, form |-> form,
        error |-> OrElse(resp.error, MsgTestFail), success |-> succ]

TestRespond(c, resp) ==
  /\ c.kind = "test" /\ BagIn(c, calls)
  /\ LET r == TestSettled(resp, integrationStatus, formData, error, success)
     IN /\ integrationStatus' = r.status
        /\ formData' = r.form
        /\ error' = r.error
        /\ success' = r.success
  /\ loading' = FALSE
  /\ calls' = Settle(c)
  /\ last' = "test" \o SaveOutcome(resp)
  /\ UNCHANGED <<props, mounted, saving, deleting, history>>

\* ------------------------------------------------------------------- next
FetchResponds ==
  \E c \in Outstanding("fetch"), resp \in GetConfigResponse : FetchRespond(c, resp)
SaveResponds ==
  \E c \in Outstanding("save"), resp \in SaveConfigResponse : SaveRespond(c, resp)
SaveFetchResponds ==
  \E c \in Outstanding("saveFetch"), resp \in GetConfigResponse : SaveFetchRespond(c, resp)
DeleteResponds ==
  \E c \in Outstanding("delete"), resp \in DeleteResponse : DeleteRespond(c, resp)
TestResponds ==
  \E c \in Outstanding("test"), resp \in TestResponse : TestRespond(c, resp)

Next ==
  \/ Mount
  \/ \E b \in BusinessIds : ChangeBusinessId(b)
  \/ \E f \in {"store_url", "access_token", "api_version"} :
       \E v \in FieldValues(f) : HandleInputChange(f, v)
  \/ HandleSaveConfig
  \/ DeleteDeclined
  \/ HandleDeleteConfig
  \/ HandleTestConnection
  \/ FetchResponds
  \/ SaveResponds
  \/ SaveFetchResponds
  \/ DeleteResponds
  \/ TestResponds

Spec == Init /\ [][Next]_vars

\* Every remote call eventually settles.
Fairness ==
  /\ WF_vars(FetchResponds)
  /\ WF_vars(SaveResponds)
  /\ WF_vars(SaveFetchResponds)
  /\ WF_vars(DeleteResponds)
  /\ WF_vars(TestResponds)

\* The flags and the calls evolve alike with and without an onSuccess prop
\* (it decides only whether setTimeout is called), so the fair behaviours
\* are explored for a form that has one.
FairInit == Init /\ onSuccess

FairSpec == FairInit /\ [][Next]_vars /\ Fairness

\* ================================================================= claims
Idle == ~loading /\ ~saving /\ ~deleting

Succeeded(resp) == ~resp.fault /\ resp.success
Found(resp) == ~resp.fault /\ resp.success /\ resp.data # NoData
GivesNone(s) == s \in {Undefined, ""}

\* C1: in every reachable state the error message and the success message
\* are not both set.
C1_MessagesExclusive == ~(error # Null /\ success # Null)

\* C2: at any time at most one save call, at most one delete call and at most
\* one test-connection call is outstanding.
C2_OneCallPerAction ==
  /\ CountOf("save") <= 1
  /\ CountOf("delete") <= 1
  /\ CountOf("test") <= 1

\* C3: provided every remote call eventually settles, whenever one of the
\* loading, saving and deleting flags is set, a state follows in which all
\* three are false.
C3_ReturnsToIdle == (loading \/ saving \/ deleting) ~> Idle

\* C3 witness: a save whose re-fetch faulted has settled and the controller
\* is idle again.
C3_Witness == last = "saveFetchFault" /\ Idle /\ calls = EmptyBag

\* C4: the step that handles a successful delete response leaves
\* integrationStatus not-integrated, the draft at its defaults, the success
\* message set and the error message null.
C4_DeleteSuccessState ==
  [][\A c \in Outstanding("delete"), resp \in DeleteResponse :
       DeleteRespond(c, resp) /\ Succeeded(resp)
         => /\ integrationStatus' = NotIntegrated
            /\ formData' = DefaultFormData
            /\ success' = MsgDeleteOk
            /\ error' = Null]_vars

\* C5: a declined delete confirmation changes neither integrationStatus, the
\* draft, the flags nor the messages, issues no call and schedules no
\* onSuccess.
C5_DeclineChangesNothing ==
  [][DeleteDeclined
       => UNCHANGED <<integrationStatus, formData, loading, saving, deleting,
                      error, success, calls, scheduled>>]_vars

\* C5 witness: a delete confirmation has been declined.
C5_Witness == last = "deleteDeclined" /\ integrationStatus.isIntegrated

\* C6: neither the start of a save nor the step that handles a failed save
\* response alters integrationStatus; a structured failure sets the error to
\* the server's string, or to "Failed to save configuration" when there is
\* none, a transport fault sets it to "An unexpected error occurred"; the
\* step sets no success message and issues no re-fetch.
C6_FailedSave ==
  [][/\ HandleSaveConfig => integrationStatus' = integrationStatus
     /\ \A c \in Outstanding("save"), resp \in SaveConfigResponse :
          SaveRespond(c, resp) /\ ~Succeeded(resp)
            => /\ integrationStatus' = integrationStatus
               /\ error' = IF resp.fault THEN MsgUnexpected
                           ELSE IF GivesNone(resp.error) THEN MsgSaveFail
                           ELSE resp.error
               /\ success' = success
               /\ calls' = calls (-) SetToBag({c})
               /\ loading' = loading
               /\ saving' = FALSE]_vars

\* C6 witness: a save failed with the server's message while the status
\* showed an integration.
C6_Witness ==
  last = "saveFail" /\ error = "bad token" /\ integrationStatus.isIntegrated

\* C7 as stated: whenever the re-fetch of a successful save completes,
\* integrationStatus is integrated with the saved store_url and a masked
\* token, and the draft token is blank.
C7_AfterSaveIntegrated ==
  [][\A c \in Outstanding("saveFetch"), resp \in GetConfigResponse :
       SaveFetchRespond(c, resp)
         => /\ integrationStatus'.isIntegrated
            /\ integrationStatus'.store_url = c.config.store_url
            /\ integrationStatus'.access_token = TokenMask
            /\ formData'.access_token = ""]_vars

\* C7 amended: when the re-fetch of a successful save completes with a
\* config, integrationStatus is integrated with the store_url and api_version
\* the re-fetch returned, the token masked if the response carries one and
\* absent otherwise, and the draft token is blank; when the re-fetch faults or
\* returns no config, integrationStatus is not-integrated.
C7_AfterSaveRefetch ==
  [][\A c \in Outstanding("saveFetch"), resp \in GetConfigResponse :
       SaveFetchRespond(c, resp)
         => IF Found(resp)
            THEN /\ integrationStatus'.isIntegrated
                 /\ integrationStatus'.store_url = resp.data.store_url
                 /\ integrationStatus'.api_version = resp.data.api_version
                 /\ integrationStatus'.access_token =
                      IF GivesNone(resp.data.access_token)
                      THEN Undefined ELSE TokenMask
                 /\ formData'.access_token = ""
            ELSE integrationStatus' = NotIntegrated]_vars

\* C7 witness: the re-fetch of a save found the config, with a token.
C7_Witness ==
  /\ last = "saveFetchFound"
  /\ success = MsgSaveOk
  /\ integrationStatus.isIntegrated
  /\ integrationStatus.access_token = TokenMask
  /\ formData.access_token = ""

\* C8: neither the start of a test connection nor the step that handles its
\* response changes integrationStatus or the draft; a success only sets the
\* success message (the server's, or "Connection successful!"), a structured
\* failure only the error message (the server's, or "Connection test
\* failed"), a transport fault only the error message "Connection test
\* failed".
C8_TestFrame ==
  [][/\ HandleTestConnection
          => integrationStatus' = integrationStatus /\ formData' = formData
     /\ \A c \in Outstanding("test"), resp \in TestResponse :
          TestRespond(c, resp)
            => /\ integrationStatus' = integrationStatus
               /\ formData' = formData
               /\ UNCHANGED <<saving, deleting, scheduled>>
               /\ calls' = calls (-) SetToBag({c})
               /\ IF resp.fault
                  THEN error' = MsgTestFail /\ success' = success
                  ELSE IF resp.success
                  THEN /\ success' = IF GivesNone(resp.message) THEN MsgTestOk
                                     ELSE resp.message
                       /\ error' = error
                  ELSE /\ error' = IF GivesNone(resp.error) THEN MsgTestFail
                                   ELSE resp.error
                       /\ success' = success]_vars

\* C8 witness: a test connection ended in a transport fault on an integrated
\* form.
C8_Witness ==
  last = "testFault" /\ error = MsgTestFail /\ integrationStatus.isIntegrated

\* C9: in every reachable state integrationStatus.access_token is absent or
\* the fixed mask and the draft access_token is blank or a value the user
\* typed; every status fetch that finds a config leaves the draft
\* access_token blank.
C9_NoServerToken ==
  /\ [](/\ integrationStatus.access_token \in {Undefined, TokenMask}
        /\ formData.access_token \in UserTokens \cup {""})
  /\ [][\A c \in Outstanding("fetch") \cup Outstanding("saveFetch"),
          resp \in GetConfigResponse :
          (FetchRespond(c, resp) \/ SaveFetchRespond(c, resp)) /\ Found(resp)
            => formData'.access_token = ""]_vars

\* C9 witness: a fetch found a config whose response carried a token.
C9_Witness ==
  /\ last = "fetchFound"
  /\ integrationStatus.access_token = TokenMask
  /\ formData.access_token = ""

\* C10: with an onSuccess callback supplied, the number of setTimeout calls
\* made equals the number of successful save and delete responses, less the
\* successful saves whose re-fetch is still outstanding; nothing else
\* schedules it.
C10_OnSuccessOncePerSuccess ==
  scheduled = IF onSuccess THEN expected - CountOf("saveFetch") ELSE 0

\* C10 witness: a save and a delete both succeeded and each scheduled
\* onSuccess once.
C10_Witness == onSuccess /\ scheduled = 2 /\ expected = 2

\* C11: neither the start of a delete nor the step that handles a failed
\* delete response alters integrationStatus or the draft; a structured
\* failure sets the error to the server's string, or to "Failed to
\* disconnect" when there is none, a transport fault sets it to "An unexpected
\* error occurred"; the step sets no success message, schedules no onSuccess
\* and resets deleting.
C11_FailedDelete ==
  [][/\ HandleDeleteConfig
          => integrationStatus' = integrationStatus /\ formData' = formData
     /\ \A c \in Outstanding("delete"), resp \in DeleteResponse :
          DeleteRespond(c, resp) /\ ~Succeeded(resp)
            => /\ integrationStatus' = integrationStatus
               /\ formData' = formData
               /\ error' = IF resp.fault THEN MsgUnexpected
                           ELSE IF GivesNone(resp.error) THEN MsgDeleteFail
                           ELSE resp.error
               /\ success' = success
               /\ scheduled' = scheduled
               /\ deleting' = FALSE]_vars

\* C11 witness: a delete failed with the server's message; the status still
\* shows the integration and no success message is set.
C11_Witness ==
  /\ last = "deleteFail"
  /\ error = "bad token"
  /\ success = Null
  /\ integrationStatus.isIntegrated

\* C12: when the fetch issued on mount is answered without a config (success
\* false, or success without data) before any other handler has run, the step
\* leaves integrationStatus not-integrated, the draft at its defaults (empty
\* store_url, blank token, api_version "2024-01"), the error message null and
\* loading false.
C12_InitialLoadNoConfig ==
  [][\A c \in Outstanding("fetch"), resp \in GetConfigResponse :
       /\ FetchRespond(c, resp)
       /\ ops = 0 /\ last = "none"
       /\ ~resp.fault /\ ~Found(resp)
       => /\ integrationStatus' = NotIntegrated
          /\ formData' = DefaultFormData
          /\ error' = Null
          /\ loading' = FALSE]_vars

\* C12 witness: the initial load found no config and the form shows its
\* defaults without an error.
C12_Witness ==
  /\ last = "fetchAbsent" /\ ops = 0
  /\ integrationStatus = NotIntegrated
  /\ formData = DefaultFormData
  /\ error = Null
  /\ ~loading

\* C13: in every reachable state loading is true whenever a status fetch
\* (the re-fetch of a save included) or a test-connection call is
\* outstanding, saving is true whenever a save call or its re-fetch is
\* outstanding, and deleting is true whenever a delete call is outstanding.
C13_FlagsReflectCalls ==
  /\ CountOf("fetch") + CountOf("saveFetch") + CountOf("test") > 0 => loading
  /\ CountOf("save") + CountOf("saveFetch") > 0 => saving
  /\ CountOf("delete") > 0 => deleting

\* C14: every response of a status fetch is applied when it arrives,
\* whatever the form's current businessId and whatever other fetches are
\* outstanding: a response with a config makes integrationStatus and the
\* draft those of that response, any other response makes integrationStatus
\* not-integrated and keeps the draft; the other outstanding fetches stay
\* outstanding.
C14_LastResponseWins ==
  [][\A c \in Outstanding("fetch") \cup Outstanding("saveFetch"),
        resp \in GetConfigResponse :
        FetchRespond(c, resp) \/ SaveFetchRespond(c, resp)
          => /\ calls' = calls (-) SetToBag({c})
             /\ IF Found(resp)
                THEN /\ integrationStatus' =
                          [isIntegrated |-> TRUE,
                           store_url |-> resp.data.store_url,
                           access_token |->
                             IF GivesNone(resp.data.access_token)
                             THEN Undefined ELSE TokenMask,
                           api_version |-> resp.data.api_version,
                           lastUpdated |-> resp.data.updated_at]
                     /\ formData' = [store_url |-> resp.data.store_url,
                                     access_token |-> "",
                                     api_version |-> resp.data.api_version]
                ELSE /\ integrationStatus' = NotIntegrated
                     /\ formData' = formData]_vars

\* C14 witness: with two fetches outstanding and the form switched to no
\* business, the response of one of them was applied: the form shows the
\* integration of the business it was issued for, the other fetch is still
\* outstanding.
C14_Witness ==
  /\ last = "fetchFoundStale"
  /\ businessId = 0
  /\ CountOf("fetch") = 1
  /\ integrationStatus.isIntegrated
  /\ ~loading

\* A step that issues a getConfig call: the effect's fetch or the re-fetch of
\* a successful save.
FetchStarts ==
  \/ CountOf("fetch")' > CountOf("fetch")
  \/ CountOf("saveFetch")' > CountOf("saveFetch")

\* C15 as stated: a step that starts a status fetch leaves the error message
\* null; the step that completes one without a fault leaves the error message
\* null; the step that completes one with a fault leaves the error
\* "Failed to fetch integration status", integrationStatus not-integrated and
\* loading false.
C15_FetchErrorNull ==
  [][/\ FetchStarts => error' = Null
     /\ \A c \in Outstanding("fetch") \cup Outstanding("saveFetch"),
           resp \in GetConfigResponse :
           FetchRespond(c, resp) \/ SaveFetchRespond(c, resp)
             => IF resp.fault
                THEN /\ error' = MsgFetchFault
                     /\ integrationStatus' = NotIntegrated
                     /\ loading' = FALSE
                ELSE error' = Null]_vars

\* C15 amended: a step that starts a status fetch sets the error message to
\* null and loading to true; the step that completes one without a fault
\* does not write the error message (it keeps whatever it holds then) and
\* resets loading; the step that completes one with a fault leaves the error
\* "Failed to fetch integration status", integrationStatus not-integrated and
\* loading false.
C15_FetchErrorKept ==
  [][/\ FetchStarts => error' = Null /\ loading'
     /\ \A c \in Outstanding("fetch") \cup Outstanding("saveFetch"),
           resp \in GetConfigResponse :
           FetchRespond(c, resp) \/ SaveFetchRespond(c, resp)
             => IF resp.fault
                THEN /\ error' = MsgFetchFault
                     /\ integrationStatus' = NotIntegrated
                     /\ loading' = FALSE
                ELSE /\ error' = error
                     /\ loading' = FALSE]_vars

\* C15 witness: a status fetch completed without a fault and the error of a
\* save that failed while the fetch was outstanding is still shown.
C15_Witness ==
  /\ last \in {"fetchFound", "fetchAbsent"}
  /\ error = MsgUnexpected
  /\ ~loading

Fields == {"store_url", "access_token", "api_version"}

\* Some input accepts a change.
EditPossible ==
  \E f \in Fields : \E v \in FieldValues(f) : ENABLED HandleInputChange(f, v)

\* An edit changes the edited field of the draft and nothing else.
EditFrame ==
  \A f \in Fields : \A v \in FieldValues(f) :
    HandleInputChange(f, v)
      => /\ formData' = [formData EXCEPT ![f] = v]
         /\ UNCHANGED <<integrationStatus, loading, saving, deleting, error,
                        success, calls, scheduled>>

\* C16 as stated: in every state of the mounted form in which neither saving
\* nor deleting is set a draft field can be edited, and an edit changes only
\* the edited field: the other draft fields, integrationStatus, the flags, the
\* messages and the outstanding calls stay as they are.
C16_EditableUnlessSavingOrDeleting ==
  /\ [](mounted /\ ~saving /\ ~deleting => EditPossible)
  /\ [][EditFrame]_vars

\* C16 amended: a draft field can be edited exactly in the states of the
\* mounted form in which neither loading nor saving is set (so also while a
\* delete is outstanding, and not during a load), and an edit changes only the
\* edited field.
C16_EditableUnlessLoadingOrSaving ==
  /\ [](mounted => (EditPossible <=> ~loading /\ ~saving))
  /\ [][EditFrame]_vars

\* C16 witness: the user's token is in the draft of an integrated form whose
\* delete is outstanding; the inputs are enabled.
C16_Witness ==
  /\ formData.access_token \in UserTokens
  /\ deleting /\ ~loading /\ ~saving
  /\ EditPossible

\* C17 as stated: every step that schedules onSuccess leaves the success
\* message set and the error message null.
C17_ScheduledShowsSuccess ==
  [][scheduled' # scheduled => success' # Null /\ error' = Null]_vars

\* C17 amended: onSuccess is scheduled only by the step that handles a
\* successful delete response, which sets the success message and keeps the
\* error message as it was, and by the step that handles the re-fetch of a
\* successful save, which keeps the success message as it was and writes the
\* error message only when the re-fetch faults; the step that handled the
\* save's response had set the success message and cleared the error.
C17_ScheduledAfterSuccess ==
  [][/\ scheduled' # scheduled
        => \/ \E c \in Outstanding("delete"), resp \in DeleteResponse :
                /\ DeleteRespond(c, resp) /\ Succeeded(resp)
                /\ success' = MsgDeleteOk
                /\ error' = error
           \/ \E c \in Outstanding("saveFetch"), resp \in GetConfigResponse :
                /\ SaveFetchRespond(c, resp)
                /\ success' = success
                /\ error' = IF resp.fault THEN MsgFetchFault ELSE error
     /\ \A c \in Outstanding("save"), resp \in SaveConfigResponse :
          SaveRespond(c, resp) /\ Succeeded(resp)
            => success' = MsgSaveOk /\ error' = Null]_vars

\* C17 witness: onSuccess was scheduled for a save whose re-fetch faulted:
\* the success message of the save and the error of the re-fetch are both
\* shown.
C17_Witness ==
  /\ last = "saveFetchFault"
  /\ onSuccess /\ scheduled = 1
  /\ success = MsgSaveOk
  /\ error = MsgFetchFault

\* C18 as stated: from a successful delete until the user starts a new save
\* or businessId changes, integrationStatus is not-integrated.
C18_StaysNotIntegrated == deleted => ~integrationStatus.isIntegrated

\* C18 amended: the step that handles a successful delete response leaves
\* integrationStatus not-integrated; after it, and until a new save or a
\* businessId change, only the response of a status fetch or of the re-fetch
\* of a save that finds a config turns integrationStatus back to integrated,
\* so it stays not-integrated while no fetch, save or re-fetch is
\* outstanding.
C18_OnlyFetchReintegrates ==
  [][/\ \A c \in Outstanding("delete"), resp \in DeleteResponse :
          DeleteRespond(c, resp) /\ Succeeded(resp)
            => integrationStatus' = NotIntegrated /\ deleted'
     /\ deleted /\ ~integrationStatus.isIntegrated
          /\ integrationStatus'.isIntegrated
          => \E c \in Outstanding("fetch") \cup Outstanding("saveFetch"),
                resp \in GetConfigResponse :
                /\ FetchRespond(c, resp) \/ SaveFetchRespond(c, resp)
                /\ Found(resp)
     /\ deleted /\ ~integrationStatus.isIntegrated
          /\ CountOf("fetch") + CountOf("save") + CountOf("saveFetch") = 0
          => ~integrationStatus'.isIntegrated]_vars

\* C18 witness: after a successful delete, with no new save and no change of
\* businessId, the re-fetch of a save that was outstanding when the delete
\* succeeded found a config and the status is integrated again.
C18_Witness ==
  /\ deleted
  /\ last = "saveFetchFound"
  /\ integrationStatus.isIntegrated
====
